---- MODULE Spec2Model ----
(***************************************************************************)
(* CloudwatchPolicyPlugin (plugin.js): the 'before:package:finalize' hook  *)
(* addCloudwatchPolicy and its helper _removeDuplicateLogGroups, acting on *)
(* the Resources of the compiled CloudFormation template.                  *)
(*                                                                         *)
(* The promise chain of addCloudwatchPolicy is modelled one callback per   *)
(* action; the two provider.request calls settle by actions of the         *)
(* environment (resolve or reject).                                        *)
(***************************************************************************)
EXTENDS Naturals, Sequences, FiniteSets

(* ---------------------------- bounds ----------------------------------- *)

\* longest DependsOn array of an input resource
MaxDeps == 2

\* most entries in the logGroups array of a describeLogGroups response
MaxExisting == 2

(* ------------------------ input domains -------------------------------- *)

LogGroupType == "AWS::Logs::LogGroup"

FunctionType == "AWS::Lambda::Function"

\* resource identifiers that are log groups in the input templates
LogKeys == {"FirstLogGroup", "SecondLogGroup"}

\* resource identifiers that are functions in the input templates
FunctionKeys == {"FirstFunction"}

\* Object.keys order of the template's resources (insertion order)
KeyOrder == <<"FirstLogGroup", "SecondLogGroup", "FirstFunction">>

\* declared LogGroupName values
LogGroupNames == {"/aws/lambda/first-log-group", "/aws/lambda/second-log-group"}

\* identifiers a DependsOn may name (a log group absent from the template
\* makes the entry dangle from the start, like 'LambdaExecutionRole' in the
\* test fixture)
DepTargets == LogKeys

Range(s) == {s[i] : i \in 1..Len(s)}

SeqsUpTo(S, n) == UNION {[1..m -> S] : m \in 0..n}

\* A DependsOn attribute: absent, a single string, or an array of strings.
\* ids holds the identifiers named (one for a string).
NoDependsOn == [kind |-> "absent", ids |-> <<>>]

DependsOnChoices ==
    {NoDependsOn}
      \cup {[kind |-> "string", ids |-> <<d>>] : d \in DepTargets}
      \cup {[kind |-> "array", ids |-> s] : s \in SeqsUpTo(DepTargets, MaxDeps)}

LogGroupResources ==
    [Type : {LogGroupType}, LogGroupName : LogGroupNames,
     DependsOn : DependsOnChoices, DeletionPolicy : {"none"}]

FunctionResources ==
    [Type : {FunctionType}, LogGroupName : {""},
     DependsOn : DependsOnChoices, DeletionPolicy : {"none"}]

\* every template over a subset of the keys
Templates ==
    UNION {[ks -> LogGroupResources \cup FunctionResources] : ks \in SUBSET (LogKeys \cup FunctionKeys)}

InputTemplates ==
    {t \in Templates : \A k \in DOMAIN t :
        t[k].Type = (IF k \in LogKeys THEN LogGroupType ELSE FunctionType)}

\* custom.cloudwatchPolicy: retainLogs may be missing from the config
Configs ==
    {[hasRetainLogs |-> FALSE, retainLogs |-> FALSE]}
      \cup [hasRetainLogs : {TRUE}, retainLogs : BOOLEAN]

ProviderNames == {"aws", "google"}

\* describeLogGroups responses: logGroups may be missing from the response
NoLogGroupsField == [hasLogGroups |-> FALSE, logGroups |-> <<>>]

LogGroupsResponses ==
    {NoLogGroupsField}
      \cup [hasLogGroups : {TRUE}, logGroups : SeqsUpTo(LogGroupNames, MaxExisting)]

\* messages whose text includes 'does not exist'
DoesNotExistMessages == {"Resource does not exist"}

\* describeStacks rejections
StackErrors ==
    [statusCode : {400, 404, 500},
     hasProviderError : BOOLEAN,
     message : DoesNotExistMessages \cup {"Rate exceeded"}]

\* placeholder while describeStacks has not rejected
NoError == [statusCode |-> 200, hasProviderError |-> FALSE, message |-> ""]

(* ------------------------ pure helpers --------------------------------- *)

\* Object.keys(Resources)
ObjectKeys(res) ==
    LET InRes(k) == k \in DOMAIN res IN SelectSeq(KeyOrder, InRes)

\* plugin.js 84-91: the [key, res] pairs of type AWS::Logs::LogGroup
CollectLogGroups(res) ==
    LET IsLog(k) == res[k].Type = LogGroupType IN SelectSeq(ObjectKeys(res), IsLog)

\* plugin.js 43-46: later entries overwrite earlier ones of the same name
LogGroupLookup(lgs, res) ==
    LET names == {res[lgs[i]].LogGroupName : i \in 1..Len(lgs)}
        Last(n) == CHOOSE i \in 1..Len(lgs) :
                      /\ res[lgs[i]].LogGroupName = n
                      /\ \A j \in 1..Len(lgs) : res[lgs[j]].LogGroupName = n => j <= i
    IN [n \in names |-> lgs[Last(n)]]

\* plugin.js 53: existingLogs.logGroups || []
ReportedNames(existingLogs) ==
    IF existingLogs.hasLogGroups THEN Range(existingLogs.logGroups) ELSE {}

\* a lookup by prefix instead of by exact name: any report marks every candidate
DuplicateKeysAnyMatch(existingLogs, lookup) ==
    IF ReportedNames(existingLogs) = {} THEN {} ELSE {lookup[n] : n \in DOMAIN lookup}

\* plugin.js 50-59
DuplicateKeys(existingLogs, lookup) ==
    {lookup[n] : n \in ReportedNames(existingLogs) \cap DOMAIN lookup}

\* plugin.js 68-70: only an array has .filter
FilterDependsOn(dep, dups) ==
    LET Keep(d) == d \notin dups
    IN IF dep.kind = "array" THEN [dep EXCEPT !.ids = SelectSeq(@, Keep)] ELSE dep

\* plugin.js 60-73
PurgeResources(res, dups) ==
    [k \in DOMAIN res \ dups |->
        [res[k] EXCEPT !.DependsOn = FilterDependsOn(@, dups)]]

\* the policy written without looking at retainLogs
ApplyPolicyAlwaysRetain(res, lgs, retain) ==
    [k \in DOMAIN res |->
        IF k \in Range(lgs) THEN [res[k] EXCEPT !.DeletionPolicy = "Retain"] ELSE res[k]]

\* plugin.js 110-112, seen through the template: the policy is written on
\* every collected object, and the ones still in Resources show it
ApplyPolicy(res, lgs, retain) ==
    [k \in DOMAIN res |->
        IF k \in Range(lgs)
        THEN [res[k] EXCEPT !.DeletionPolicy = IF retain THEN "Retain" ELSE "Delete"]
        ELSE res[k]]

\* the status the test's comment speaks of (404) instead of the 400 the code tests
IsNotFound404(error) ==
    /\ error.statusCode = 404
    /\ error.hasProviderError
    /\ error.message \in DoesNotExistMessages

\* plugin.js 99
IsNotFound(error) ==
    /\ error.statusCode = 400
    /\ error.hasProviderError
    /\ error.message \in DoesNotExistMessages

(* ---------------------------- state ------------------------------------ *)

VARIABLES
    providerName,   \* sls.service.provider.name
    config,         \* this.config
    Resources,      \* compiledCloudFormationTemplate.Resources
    pc,             \* position in the promise chain
    retainLogs,     \* local of addCloudwatchPolicy
    logGroups,      \* local of addCloudwatchPolicy (keys of the collected pairs)
    duplicates,     \* value passed between the two thens of _removeDuplicateLogGroups
    stackCalls,     \* describeStacks requests issued by this invocation
    logsCalls,      \* describeLogGroups requests issued by this invocation
    stackResult,    \* how describeStacks settled: none, resolved, rejected
    stackError,     \* what describeStacks rejected with
    reported,       \* the names describeLogGroups resolved with
    failure,        \* why the returned promise rejected
    supplied,       \* Resources as they were when the hook was invoked
    run,            \* first deployment or the one after it
    removedNames    \* names of the log groups the previous invocation removed

vars == <<providerName, config, Resources, pc, retainLogs, logGroups, duplicates,
          stackCalls, logsCalls, stackResult, stackError, reported, failure,
          supplied, run, removedNames>>

\* what no callback of the chain writes
env == <<providerName, config, run, removedNames>>

\* how describeStacks settled
stack == <<stackResult, stackError>>

Init ==
    /\ providerName \in ProviderNames
    /\ config \in Configs
    /\ Resources \in InputTemplates
    /\ pc = "idle"
    /\ retainLogs = FALSE
    /\ logGroups = <<>>
    /\ duplicates = {}
    /\ stackCalls = 0
    /\ logsCalls = 0
    /\ stackResult = "none"
    /\ stackError = NoError
    /\ reported = {}
    /\ failure = "none"
    /\ supplied = Resources
    /\ run = "first"
    /\ removedNames = {}

(* --------------------------- actions ----------------------------------- *)

\* addCloudwatchPolicy without the provider check of line 80
AddCloudwatchPolicyAnyProvider ==
    /\ pc = "idle"
    /\ retainLogs' = (IF config.hasRetainLogs THEN config.retainLogs ELSE FALSE)
    /\ logGroups' = CollectLogGroups(Resources)
    /\ stackCalls' = stackCalls + 1
    /\ pc' = "describeStacks"
    /\ UNCHANGED <<Resources, duplicates, logsCalls, stack, reported, failure, supplied>>
    /\ UNCHANGED env

\* addCloudwatchPolicy writing the policy while it collects, before any request settles
AddCloudwatchPolicyEager ==
    /\ pc = "idle"
    /\ retainLogs' = (IF config.hasRetainLogs THEN config.retainLogs ELSE FALSE)
    /\ IF providerName # "aws"
       THEN /\ pc' = "rejected"
            /\ failure' = "UnsupportedProvider"
            /\ UNCHANGED <<logGroups, stackCalls, Resources>>
       ELSE /\ logGroups' = CollectLogGroups(Resources)
            /\ Resources' = ApplyPolicy(Resources, logGroups', retainLogs')
            /\ stackCalls' = stackCalls + 1
            /\ pc' = "describeStacks"
            /\ UNCHANGED failure
    /\ UNCHANGED <<duplicates, logsCalls, stack, reported, supplied>>
    /\ UNCHANGED env

\* plugin.js 76-97: the synchronous part of addCloudwatchPolicy
AddCloudwatchPolicy ==
    /\ pc = "idle"
    /\ retainLogs' = (IF config.hasRetainLogs THEN config.retainLogs ELSE FALSE)
    /\ IF providerName # "aws"
       THEN /\ pc' = "rejected"
            /\ failure' = "UnsupportedProvider"
            /\ UNCHANGED <<logGroups, stackCalls>>
       ELSE /\ logGroups' = CollectLogGroups(Resources)
            /\ stackCalls' = stackCalls + 1
            /\ pc' = "describeStacks"
            /\ UNCHANGED failure
    /\ UNCHANGED <<Resources, duplicates, logsCalls, stack, reported, supplied>>
    /\ UNCHANGED env

\* describeStacks resolves; the catch of 98-106 is skipped
DescribeStacksResolved ==
    /\ pc = "describeStacks"
    /\ stackResult' = "resolved"
    /\ UNCHANGED stackError
    /\ pc' = "afterStacks"
    /\ UNCHANGED <<Resources, retainLogs, logGroups, duplicates, stackCalls, logsCalls,
                   reported, failure, supplied>>
    /\ UNCHANGED env

\* a catch that swallows every describeStacks error
DescribeStacksRejectedSwallowed ==
    /\ pc = "describeStacks"
    /\ stackResult' = "rejected"
    /\ \E error \in StackErrors : stackError' = error
    /\ pc' = "afterStacks"
    /\ UNCHANGED <<Resources, retainLogs, logGroups, duplicates, stackCalls, logsCalls,
                   reported, failure, supplied>>
    /\ UNCHANGED env

\* plugin.js 98-106: describeStacks rejects and the catch classifies the error
DescribeStacksRejected ==
    /\ pc = "describeStacks"
    /\ stackResult' = "rejected"
    /\ \E error \in StackErrors :
         /\ stackError' = error
         /\ IF IsNotFound(error)
            THEN /\ pc' = "afterStacks"
                 /\ UNCHANGED failure
            ELSE /\ pc' = "failed"
                 /\ failure' = "StackQueryError"
    /\ UNCHANGED <<Resources, retainLogs, logGroups, duplicates, stackCalls, logsCalls,
                   reported, supplied>>
    /\ UNCHANGED env

\* line 107 without the retainLogs guard
ThenRemoveDuplicatesAlways ==
    /\ pc = "afterStacks"
    /\ logsCalls' = logsCalls + 1
    /\ pc' = "describeLogGroups"
    /\ UNCHANGED <<Resources, retainLogs, logGroups, duplicates, stackCalls, stack,
                   reported, failure, supplied>>
    /\ UNCHANGED env

\* plugin.js 107 and 40-49: retainLogs && this._removeDuplicateLogGroups(logGroups)
ThenRemoveDuplicates ==
    /\ pc = "afterStacks"
    /\ IF retainLogs
       THEN /\ logsCalls' = logsCalls + 1
            /\ pc' = "describeLogGroups"
       ELSE /\ pc' = "applyPolicy"
            /\ UNCHANGED logsCalls
    /\ UNCHANGED <<Resources, retainLogs, logGroups, duplicates, stackCalls, stack,
                   reported, failure, supplied>>
    /\ UNCHANGED env

\* plugin.js 50-59: describeLogGroups resolves, the first then computes the keys
DescribeLogGroupsResolved ==
    /\ pc = "describeLogGroups"
    /\ \E response \in LogGroupsResponses :
         /\ reported' = ReportedNames(response)
         /\ duplicates' = DuplicateKeys(response, LogGroupLookup(logGroups, Resources))
    /\ pc' = "purge"
    /\ UNCHANGED <<Resources, retainLogs, logGroups, stackCalls, logsCalls, stack,
                   failure, supplied>>
    /\ UNCHANGED env

\* describeLogGroups rejects: every later then is skipped
DescribeLogGroupsRejected ==
    /\ pc = "describeLogGroups"
    /\ pc' = "failed"
    /\ failure' = "InventoryQueryError"
    /\ UNCHANGED <<Resources, retainLogs, logGroups, duplicates, stackCalls, logsCalls,
                   stack, reported, supplied>>
    /\ UNCHANGED env

\* plugin.js 60-73: the second then of _removeDuplicateLogGroups
RemoveDuplicates ==
    /\ pc = "purge"
    /\ Resources' = PurgeResources(Resources, duplicates)
    /\ pc' = "applyPolicy"
    /\ UNCHANGED <<retainLogs, logGroups, duplicates, stackCalls, logsCalls, stack,
                   reported, failure, supplied>>
    /\ UNCHANGED env

\* plugin.js 108-113: the last then of addCloudwatchPolicy
AddRetentionPolicy ==
    /\ pc = "applyPolicy"
    /\ Resources' = ApplyPolicy(Resources, logGroups, retainLogs)
    /\ pc' = "done"
    /\ UNCHANGED <<retainLogs, logGroups, duplicates, stackCalls, logsCalls, stack,
                   reported, failure, supplied>>
    /\ UNCHANGED env

\* plugin.js 35-37: the host fires the hook again on the next deployment, on
\* the template the first invocation left, with a fresh plugin instance
NextDeployment ==
    /\ pc = "done"
    /\ run = "first"
    /\ run' = "second"
    /\ removedNames' = {supplied[k].LogGroupName : k \in DOMAIN supplied \ DOMAIN Resources}
    /\ supplied' = Resources
    /\ pc' = "idle"
    /\ retainLogs' = FALSE
    /\ logGroups' = <<>>
    /\ duplicates' = {}
    /\ stackCalls' = 0
    /\ logsCalls' = 0
    /\ stackResult' = "none"
    /\ stackError' = NoError
    /\ reported' = {}
    /\ failure' = "none"
    /\ UNCHANGED <<providerName, config, Resources>>

Next ==
    \/ AddCloudwatchPolicy
    \/ DescribeStacksResolved
    \/ DescribeStacksRejected
    \/ ThenRemoveDuplicates
    \/ DescribeLogGroupsResolved
    \/ DescribeLogGroupsRejected
    \/ RemoveDuplicates
    \/ AddRetentionPolicy
    \/ NextDeployment

Spec == Init /\ [][Next]_vars

\* the hook invoked on a template in which every DependsOn names a declared
\* resource, as CloudFormation requires of a template it accepts
InitClosed ==
    /\ Init
    /\ \A k \in DOMAIN Resources : Range(Resources[k].DependsOn.ids) \subseteq DOMAIN Resources

SpecClosed == InitClosed /\ [][Next]_vars


(* ------------------------- vocabulary of the claims -------------------- *)

\* custom.cloudwatchPolicy.retainLogs is set and true
RetainConfigured == config.hasRetainLogs /\ config.retainLogs

\* the keys of the log-group resources of a template
LogGroupKeysOf(res) == {k \in DOMAIN res : res[k].Type = LogGroupType}

\* the declared log-group names of a template are pairwise distinct
DistinctNames(res) ==
    \A k1, k2 \in LogGroupKeysOf(res) :
        k1 # k2 => res[k1].LogGroupName # res[k2].LogGroupName

\* every DependsOn entry names a resource of the template
NoDanglingReference(res) ==
    \A k \in DOMAIN res : Range(res[k].DependsOn.ids) \subseteq DOMAIN res

\* same resources with the same DependsOn
SameStructure(res1, res2) ==
    /\ DOMAIN res1 = DOMAIN res2
    /\ \A k \in DOMAIN res1 : res1[k].DependsOn = res2[k].DependsOn

\* a rejection with status 400 and a provider message containing 'does not exist'
NotFoundRejection ==
    /\ stackResult = "rejected"
    /\ stackError.statusCode = 400
    /\ stackError.hasProviderError
    /\ stackError.message \in DoesNotExistMessages

\* plugin.js 107-113 run on a template when describeStacks resolved and
\* describeLogGroups reported the given names
ReconciledWhenStackExists(res, retain, names) ==
    LET lgs == CollectLogGroups(res)
        response == CHOOSE r \in LogGroupsResponses : ReportedNames(r) = names
        purged == IF retain
                  THEN PurgeResources(res, DuplicateKeys(response, LogGroupLookup(lgs, res)))
                  ELSE res
    IN ApplyPolicy(purged, lgs, retain)

(* ------------------------------ claims --------------------------------- *)

\* C1: after addCloudwatchPolicy completes, every DependsOn entry of every
\* resource still in the template names a resource present in the template.
C1_NoDanglingReferences ==
    pc = "done" => NoDanglingReference(Resources)

\* C2: with retainLogs true, both queries complete and pairwise distinct
\* declared names, the keys of the template afterwards are the keys before
\* minus exactly the log groups whose LogGroupName was reported.
C2_ExactPurge ==
    (pc = "done" /\ RetainConfigured /\ DistinctNames(supplied)) =>
        DOMAIN Resources =
            DOMAIN supplied \ {k \in LogGroupKeysOf(supplied) :
                                  supplied[k].LogGroupName \in reported}

C2_Witness ==
    /\ pc = "done" /\ RetainConfigured /\ DistinctNames(supplied)
    /\ "FirstFunction" \in DOMAIN Resources
    /\ \E k \in LogGroupKeysOf(supplied) : k \notin DOMAIN Resources
    /\ \E k \in LogGroupKeysOf(supplied) :
          k \in DOMAIN Resources /\ supplied[k].LogGroupName \notin reported

\* C3: after a successful run every log group left in the template has a
\* DeletionPolicy: Retain if retainLogs is true, Delete otherwise (also when
\* retainLogs is not configured).
C3_PolicyCorrectness ==
    pc = "done" =>
        \A k \in LogGroupKeysOf(Resources) :
            Resources[k].DeletionPolicy = (IF RetainConfigured THEN "Retain" ELSE "Delete")

C3_Witness ==
    /\ pc = "done" /\ RetainConfigured
    /\ DOMAIN supplied # DOMAIN Resources
    /\ \E k \in LogGroupKeysOf(Resources) : Resources[k].DeletionPolicy = "Retain"

\* C4: with retainLogs false nothing is ever removed, no DependsOn changes,
\* and describeLogGroups is never requested.
C4_ConditionalDedup ==
    ~RetainConfigured => (logsCalls = 0 /\ SameStructure(Resources, supplied))

C4_Witness ==
    /\ pc = "done" /\ config.hasRetainLogs /\ ~config.retainLogs
    /\ LogKeys \subseteq DOMAIN Resources
    /\ "FirstFunction" \in DOMAIN Resources
    /\ Resources["FirstFunction"].DependsOn.kind = "array"
    /\ Range(Resources["FirstFunction"].DependsOn.ids) = LogKeys
    /\ \A k \in LogKeys : Resources[k].DeletionPolicy = "Delete"

\* C5: on a provider other than aws the hook rejects, requests neither
\* describeStacks nor describeLogGroups and leaves the template as it was.
C5_UnsupportedProvider ==
    providerName # "aws" =>
        /\ stackCalls = 0 /\ logsCalls = 0
        /\ Resources = supplied
        /\ pc \in {"idle", "rejected"}
        /\ pc = "rejected" => failure = "UnsupportedProvider"

C5_Witness ==
    /\ pc = "rejected" /\ failure = "UnsupportedProvider"
    /\ LogGroupKeysOf(Resources) # {}

\* C6: when describeStacks rejects with anything but a not-found error, or
\* describeLogGroups rejects, the hook fails and the template is exactly as
\* it was supplied.
C6_FailureLeavesTemplate ==
    /\ (stackResult = "rejected" /\ ~NotFoundRejection) =>
           (pc = "failed" /\ failure = "StackQueryError")
    /\ pc = "failed" =>
           (failure \in {"StackQueryError", "InventoryQueryError"} /\ Resources = supplied)

C6_Witness ==
    /\ pc = "failed" /\ failure = "InventoryQueryError"
    /\ LogGroupKeysOf(Resources) # {}

\* C7: a not-found rejection of describeStacks never fails the hook, and the
\* final template is the one a resolved describeStacks gives for the same
\* template, configuration and describeLogGroups response.
C7_NotFoundIsNormal ==
    NotFoundRejection =>
        /\ failure # "StackQueryError"
        /\ pc = "done" =>
              Resources = ReconciledWhenStackExists(supplied, RetainConfigured, reported)

C7_Witness ==
    /\ NotFoundRejection /\ pc = "done" /\ RetainConfigured
    /\ DOMAIN Resources # DOMAIN supplied

\* C8: a second run on the reconciled template, with an inventory reporting
\* the groups the first run removed, removes nothing more and changes no
\* DependsOn; it only writes the same DeletionPolicy values again.
C8_Idempotent ==
    (run = "second" /\ pc = "done" /\ reported = removedNames) => Resources = supplied

\* C9: with retainLogs true, when one reported name is the LogGroupName of
\* two or more log groups, every one of them is removed, and so is every
\* DependsOn reference to each of them.
C9_MultipleMatches ==
    (pc = "done" /\ RetainConfigured) =>
        \A k1, k2 \in LogGroupKeysOf(supplied) :
            (/\ k1 # k2
             /\ supplied[k1].LogGroupName = supplied[k2].LogGroupName
             /\ supplied[k1].LogGroupName \in reported) =>
                /\ k1 \notin DOMAIN Resources
                /\ \A k \in DOMAIN Resources : k1 \notin Range(Resources[k].DependsOn.ids)

\* C10: describeStacks is requested exactly once on aws whatever retainLogs
\* is; describeLogGroups at most once, only with retainLogs true and only
\* after describeStacks settled as resolved or not-found; the template is not
\* changed while either request is outstanding.
C10_QueryOrdering ==
    /\ (providerName = "aws" /\ pc # "idle") => stackCalls = 1
    /\ stackCalls <= 1 /\ logsCalls <= 1
    /\ logsCalls = 1 =>
          /\ RetainConfigured
          /\ stackResult = "resolved" \/ NotFoundRejection
    /\ (stackResult = "none" \/ pc = "describeLogGroups") => Resources = supplied

C10_Witness ==
    /\ pc = "describeLogGroups" /\ logsCalls = 1 /\ stackCalls = 1
    /\ NotFoundRejection
    /\ run = "second"

====
